---------------------------- MODULE Spec2Model ----------------------------
(***************************************************************************)
(* Model of the schema capture harness (test_sdk_tools.py) and of the      *)
(* schema reporter (examine_schemas.py).                                   *)
(*                                                                         *)
(* Text (a subprocess's standard output, the contents of a schema file) is *)
(* a sequence of tokens.  A token is a character (a digit, a bracket, a    *)
(* whitespace character), a JSON literal (true, false, null) or a whole    *)
(* JSON string literal.  The token "H" stands for a run of more than 4300  *)
(* digits: an integer literal that is valid JSON and that int() refuses    *)
(* with ValueError (sys.int_max_str_digits), the same way a line nested    *)
(* deeper than the recursion limit is refused with RecursionError.         *)
(*                                                                         *)
(* A decoded JSON value is a tagged record [k |-> kind, v |-> payload].    *)
(***************************************************************************)
EXTENDS Integers, Sequences, FiniteSets, TLC

\* Longest standard output, in tokens, the capture specification draws.
MaxOut == 4
\* Most messages in a schema file the reporter specification draws.
MaxMsgs == 2

----------------------------------------------------------------------------
(* JSON values                                                             *)

JNull == [k |-> "null"]
JBool(b) == [k |-> "bool", v |-> b]
JNum(n) == [k |-> "num", v |-> n]
JStr(s) == [k |-> "str", v |-> s]
JArr(seq) == [k |-> "arr", v |-> seq]
JObj(f) == [k |-> "obj", v |-> f]

EmptyDict == [x \in {} |-> JNull]

\* dict.get(key, default) on a decoded object's payload
DictGet(d, key, default) == IF key \in DOMAIN d THEN d[key] ELSE default

----------------------------------------------------------------------------
(* Tokens                                                                  *)

\* The whitespace characters of the model: the space and the newline.  Both
\* json.loads (json.decoder.WHITESPACE) and str.strip() skip them.
JsonWs == {" ", "\n"}
PyWs == {" ", "\n"}

DigitTok == <<"0", "1", "2", "3", "4", "5", "6", "7", "8", "9">>
Digits == {DigitTok[i] : i \in 1..10}
DigitVal(t) == (CHOOSE i \in 1..10 : DigitTok[i] = t) - 1
\* The over-long digit run (see the head of the module).
OverLong == "H"

\* Every Python string that occurs as a key or a value.
Strs ==
    { "tool_name", "test_scenario", "success", "messages", "stderr",
      "type", "subtype", "message", "content", "result", "is_error",
      "Edit", "Write", "MultiEdit", "NotebookEdit",
      "Add docstring to function",
      "Create new JavaScript React component file",
      "Add docstrings to multiple functions",
      "Add markdown cell to notebook",
      "system", "init", "assistant", "user", "done", "hi",
      "", "warn\n", "say \"x\"" }

\* json.encoder.py_encode_basestring_ascii: the text between the quotes.
EscapeAscii(s) ==
    CASE s = "warn\n" -> "warn\\n"
      [] s = "say \"x\"" -> "say \\\"x\\\""
      [] OTHER -> s

\* The string literal token of a Python string.
StrTok(s) == "\"" \o EscapeAscii(s) \o "\""
IsStrTok(t) == \E s \in Strs : StrTok(s) = t
\* json.decoder.scanstring: the Python string of a string literal token.
ScanString(t) == CHOOSE s \in Strs : StrTok(s) = t

----------------------------------------------------------------------------
(* json.loads: the decoder, over tokens.  A scan returns                   *)
(* [st, val, end]: st is "ok" or the name of the exception raised, end the *)
(* index after the value.                                                  *)

Ok(v, e) == [st |-> "ok", val |-> v, end |-> e]
Raise(exc) == [st |-> exc, val |-> JNull, end |-> 0]
JDE == Raise("JSONDecodeError")

RECURSIVE SkipWs(_, _)
SkipWs(toks, i) ==
    IF i <= Len(toks) /\ toks[i] \in JsonWs THEN SkipWs(toks, i + 1) ELSE i

\* The index after the digit run that starts at i (NUMBER_RE: 0 | [1-9]\d* ).
RECURSIVE DigitsEnd(_, _)
DigitsEnd(toks, i) ==
    IF i <= Len(toks) /\ toks[i] \in Digits \cup {OverLong}
    THEN DigitsEnd(toks, i + 1)
    ELSE i

\* int() of the digit run toks[i..j-1]
RECURSIVE IntOf(_, _, _)
IntOf(toks, i, j) ==
    IF j <= i THEN 0 ELSE 10 * IntOf(toks, i, j - 1) + DigitVal(toks[j - 1])

ScanNumber(toks, i) ==
    LET j == IF toks[i] = "0" THEN i + 1 ELSE DigitsEnd(toks, i)
    IN  IF \E n \in i..(j - 1) : toks[n] = OverLong
        THEN Raise("ValueError")
        ELSE Ok(JNum(IntOf(toks, i, j)), j)

RECURSIVE ScanOnce(_, _), ArrayItems(_, _, _), ObjectItems(_, _, _)

\* json.decoder.JSONArray, after the first item position is known
ArrayItems(toks, i, acc) ==
    LET r == ScanOnce(toks, i)
        j == SkipWs(toks, r.end)
    IN  IF r.st # "ok" THEN r
        ELSE IF j > Len(toks) THEN JDE
        ELSE IF toks[j] = "]" THEN Ok(JArr(Append(acc, r.val)), j + 1)
        ELSE IF toks[j] = ","
             THEN ArrayItems(toks, SkipWs(toks, j + 1), Append(acc, r.val))
        ELSE JDE

\* json.decoder.JSONObject, at a property name
ObjectItems(toks, i, acc) ==
    IF i > Len(toks) \/ ~IsStrTok(toks[i]) THEN JDE
    ELSE
    LET key == ScanString(toks[i])
        c == SkipWs(toks, i + 1)
    IN  IF c > Len(toks) \/ toks[c] # ":" THEN JDE
        ELSE
        LET r == ScanOnce(toks, SkipWs(toks, c + 1))
            j == SkipWs(toks, r.end)
            dict == (key :> r.val) @@ acc
        IN  IF r.st # "ok" THEN r
            ELSE IF j > Len(toks) THEN JDE
            ELSE IF toks[j] = "}" THEN Ok(JObj(dict), j + 1)
            ELSE IF toks[j] = ","
                 THEN ObjectItems(toks, SkipWs(toks, j + 1), dict)
            ELSE JDE

\* json.scanner.scan_once
ScanOnce(toks, i) ==
    IF i > Len(toks) THEN JDE
    ELSE
    LET t == toks[i]
        n == SkipWs(toks, i + 1)
    IN  CASE IsStrTok(t) -> Ok(JStr(ScanString(t)), i + 1)
          [] t = "{" ->
                IF n <= Len(toks) /\ toks[n] = "}"
                THEN Ok(JObj(EmptyDict), n + 1)
                ELSE ObjectItems(toks, n, EmptyDict)
          [] t = "[" ->
                IF n <= Len(toks) /\ toks[n] = "]"
                THEN Ok(JArr(<<>>), n + 1)
                ELSE ArrayItems(toks, n, <<>>)
          [] t = "null" -> Ok(JNull, i + 1)
          [] t = "true" -> Ok(JBool(TRUE), i + 1)
          [] t = "false" -> Ok(JBool(FALSE), i + 1)
          [] t \in Digits \cup {OverLong} -> ScanNumber(toks, i)
          [] OTHER -> JDE

\* json.loads(s): JSONDecoder.decode, which refuses data after the value.
JsonLoads(toks) ==
    LET r == ScanOnce(toks, SkipWs(toks, 1))
    IN  IF r.st # "ok" THEN r
        ELSE IF SkipWs(toks, r.end) # Len(toks) + 1 THEN JDE
        ELSE r

----------------------------------------------------------------------------
(* json.dump(obj, f, indent=2): the encoder, to tokens.                    *)

\* The order in which an object's keys are written (a dict's insertion order).
KeyOrder ==
    << "tool_name", "test_scenario", "success", "messages", "stderr",
       "type", "subtype", "message", "content", "result", "is_error" >>

RECURSIVE Spaces(_)
Spaces(n) == IF n = 0 THEN <<>> ELSE <<" ">> \o Spaces(n - 1)

\* newline_indent = '\n' + indent * level, with indent=2
NewlineIndent(level) == <<"\n">> \o Spaces(2 * level)

RECURSIVE IntToks(_)
IntToks(n) ==
    IF n < 10 THEN <<DigitTok[n + 1]>>
    ELSE IntToks(n \div 10) \o <<DigitTok[(n % 10) + 1]>>

\* A bool is written as true or false (str() would give True, False).
BoolTokStr(b) == IF b THEN "True" ELSE "False"
BoolTok(b) == IF b THEN "true" ELSE "false"

RECURSIVE IterEncode(_, _), EncodeList(_, _, _), EncodeDict(_, _, _, _)

\* _iterencode_list, from item i on
EncodeList(seq, i, level) ==
    IF i > Len(seq) THEN NewlineIndent(level - 1) \o <<"]">>
    ELSE (IF i = 1 THEN <<>> ELSE <<",">>) \o NewlineIndent(level)
         \o IterEncode(seq[i], level) \o EncodeList(seq, i + 1, level)

\* _iterencode_dict, from key number i of KeyOrder on; first: no key written yet
EncodeDict(d, i, level, first) ==
    IF i > Len(KeyOrder) THEN NewlineIndent(level - 1) \o <<"}">>
    ELSE IF KeyOrder[i] \notin DOMAIN d THEN EncodeDict(d, i + 1, level, first)
    ELSE (IF first THEN <<>> ELSE <<",">>) \o NewlineIndent(level)
         \o <<StrTok(KeyOrder[i]), ":", " ">>
         \o IterEncode(d[KeyOrder[i]], level)
         \o EncodeDict(d, i + 1, level, FALSE)

\* _iterencode
IterEncode(o, level) ==
    CASE o.k = "null" -> <<"null">>
      [] o.k = "bool" -> <<BoolTok(o.v)>>
      [] o.k = "num" -> IntToks(o.v)
      [] o.k = "str" -> <<StrTok(o.v)>>
      [] o.k = "arr" ->
            IF o.v = <<>> THEN <<"[", "]">>
            ELSE <<"[">> \o EncodeList(o.v, 1, level + 1)
      [] o.k = "obj" ->
            IF DOMAIN o.v = {} THEN <<"{", "}">>
            ELSE <<"{">> \o EncodeDict(o.v, 1, level + 1, TRUE)

JsonDump(o) == IterEncode(o, 0)

----------------------------------------------------------------------------
(* State                                                                   *)

VARIABLES
    pc,          \* where the running script is
    argv_help,   \* the runner was started with --help
    child,       \* the behaviour of the subprocess of the current invocation
    live,        \* the scenarios whose subprocess is running
    result,      \* what run_claude_command returned to the current scenario
    cur,         \* index of the current scenario of run_all_tests
    began,       \* the scenarios begun so far, in order
    results,     \* run_all_tests' results dict
    exit_code,   \* exit status of the script, -1 while it runs
    schemas_dir, \* the directory "schemas" exists
    files,       \* the files of "schemas": name -> contents (tokens)
    files0,      \* the files of "schemas" when the script started
    dir0,        \* whether "schemas" existed when the script started
    last_saved,  \* per tool_name, the schema_data of its last save_schema
    loaded,      \* what the last json.load of a schema file returned
    out,         \* what the reporter printed
    todo         \* the reporter's sorted list of files still to examine

vars ==
    << pc, argv_help, child, live, result, cur, began, results, exit_code,
       schemas_dir, files, files0, dir0, last_saved, loaded, out, todo >>

NoChild == [exc |-> "none", stdout |-> <<>>, returncode |-> 0, stderr |-> ""]
NoResult == [kind |-> "none"]
NoFiles == [x \in {} |-> <<>>]
NoSaves == [x \in {} |-> JNull]

----------------------------------------------------------------------------
(* SDKToolTester.run_claude_command                                        *)

Return(d) == [kind |-> "return", value |-> d]
Throw(e) == [kind |-> "raise", value |-> e]

\* str.strip()
RECURSIVE LStrip(_)
LStrip(toks) ==
    IF toks # <<>> /\ Head(toks) \in PyWs THEN LStrip(Tail(toks)) ELSE toks
RECURSIVE RStrip(_)
RStrip(toks) ==
    IF toks # <<>> /\ toks[Len(toks)] \in PyWs
    THEN RStrip(SubSeq(toks, 1, Len(toks) - 1))
    ELSE toks
Strip(toks) == RStrip(LStrip(toks))

\* str.split('\n'): the lines, at least one
RECURSIVE SplitFrom(_, _, _)
SplitFrom(toks, i, line) ==
    IF i > Len(toks) THEN <<line>>
    ELSE IF toks[i] = "\n" THEN <<line>> \o SplitFrom(toks, i + 1, <<>>)
    ELSE SplitFrom(toks, i + 1, Append(line, toks[i]))
Split(toks) == SplitFrom(toks, 1, <<>>)

\* except json.JSONDecodeError: continue
LineErrorSkipped(exc) == exc = "JSONDecodeError"

\* The loop over the lines, from line i on: "ok" and the messages, or the
\* exception that left the loop.
RECURSIVE ParseStream(_, _, _)
ParseStream(lines, i, messages) ==
    IF i > Len(lines) THEN [st |-> "ok", messages |-> messages]
    ELSE IF Strip(lines[i]) = <<>> THEN ParseStream(lines, i + 1, messages)
    ELSE
    LET r == JsonLoads(lines[i])
    IN  IF r.st = "ok" THEN ParseStream(lines, i + 1, Append(messages, r.val))
        ELSE IF LineErrorSkipped(r.st) THEN ParseStream(lines, i + 1, messages)
        ELSE [st |-> r.st, messages |-> <<>>]

\* except Exception as e: every exception of the model is an Exception.
HandlerCatchesOnlyLaunch(exc) == exc \in {"FileNotFoundError"}
HandlerCatches(exc) ==
    exc \in {"FileNotFoundError", "UnicodeDecodeError", "ValueError",
             "JSONDecodeError"}

OnException(exc) ==
    IF HandlerCatches(exc)
    THEN Return([success |-> FALSE, error |-> exc, messages |-> <<>>])
    ELSE Throw(exc)

\* c is the subprocess's behaviour: c.exc is the exception subprocess.run
\* raises ("none": it returns), c.stdout, c.stderr and c.returncode what it
\* returns.
run_claude_command(c) ==
    LET parsed == ParseStream(Split(Strip(c.stdout)), 1, <<>>)
    IN  IF c.exc # "none" THEN OnException(c.exc)
        ELSE IF parsed.st # "ok" THEN OnException(parsed.st)
        ELSE Return([success |-> c.returncode = 0,
                     messages |-> parsed.messages,
                     stderr |-> c.stderr])

----------------------------------------------------------------------------
(* The capture specification: run_claude_command on every standard output  *)
(* of at most MaxOut tokens.                                               *)

CaptureAlphabet == {"1", "2", "x", " ", "\n", "[", "]", OverLong}

TokSeqs(alphabet, n) == UNION {[1..m -> alphabet] : m \in 0..n}

CaptureChildren ==
    [exc : {"none"}, stdout : TokSeqs(CaptureAlphabet, MaxOut),
     returncode : {0, 1}, stderr : {""}]
    \cup [exc : {"FileNotFoundError", "UnicodeDecodeError"}, stdout : {<<>>},
          returncode : {0}, stderr : {""}]

Idle ==
    /\ argv_help = FALSE
    /\ live = {}
    /\ cur = 0
    /\ began = <<>>
    /\ results = NoSaves
    /\ exit_code = -1
    /\ schemas_dir = TRUE
    /\ files = NoFiles
    /\ files0 = NoFiles
    /\ dir0 = TRUE
    /\ last_saved = NoSaves
    /\ loaded = NoResult
    /\ out = <<>>
    /\ todo = <<>>

InitCapture ==
    /\ pc = "capture_call"
    /\ child \in CaptureChildren
    /\ result = NoResult
    /\ Idle

CaptureReturn ==
    /\ pc = "capture_call"
    /\ result' = run_claude_command(child)
    /\ pc' = "capture_returned"
    /\ UNCHANGED << argv_help, child, live, cur, began, results, exit_code,
                    schemas_dir, files, files0, dir0, last_saved, loaded, out,
                    todo >>

NextCapture == CaptureReturn

SpecCapture == InitCapture /\ [][NextCapture]_vars

----------------------------------------------------------------------------
(* SDKToolTester.save_schema and the scenarios' schema_data                *)

\* result.get(key, default) on the dict run_claude_command returned
ResultGet(d, key, default) == IF key \in DOMAIN d THEN d[key] ELSE default

\* The schema_data dict a scenario builds from the result.
SchemaData(tool_name, test_scenario, res) ==
    JObj([tool_name |-> JStr(tool_name),
          test_scenario |-> JStr(test_scenario),
          success |-> JBool(res.success),
          messages |-> JArr(res.messages),
          stderr |-> JStr(ResultGet(res, "stderr", ""))])

\* filename = f"{tool_name}_schema.json"
SchemaFile(tool_name) == tool_name \o "_schema.json"

\* open(filepath, 'w') and the write: the file's new contents
AppendToFile(old, text) == old \o text
WriteFile(old, text) == text

\* The directory's files after save_schema(tool_name, schema_data).
save_schema(fs, tool_name, schema_data) ==
    LET name == SchemaFile(tool_name)
        old == IF name \in DOMAIN fs THEN fs[name] ELSE <<>>
    IN  (name :> WriteFile(old, JsonDump(schema_data))) @@ fs

\* with open(filepath, 'r') as f: data = json.load(f)
load_schema(fs, name) == JsonLoads(fs[name])

----------------------------------------------------------------------------
(* The archive specification: save_schema calls, for any tool_name and     *)
(* record, and loads of the files.                                         *)

\* Most save_schema calls of a behaviour.
MaxSaves == 2

ToolStems == {"edit_tool", "write_tool", "multiedit_tool"}

Msg(f) == JObj(f)

ArchiveResults ==
    { [success |-> TRUE,
       messages |-> << Msg([type |-> JStr("system"), subtype |-> JStr("init")]),
                       Msg([type |-> JStr("result"),
                            is_error |-> JBool(FALSE)]) >>,
       stderr |-> ""],
      [success |-> FALSE, messages |-> <<>>, stderr |-> "warn\n"],
      [success |-> TRUE,
       messages |-> << JNum(12), JStr("say \"x\""),
                       JArr(<<JNum(1), JArr(<<JNum(20)>>), JArr(<<>>)>>),
                       JNull, Msg(EmptyDict) >>,
       stderr |-> ""],
      [success |-> FALSE, error |-> "FileNotFoundError", messages |-> <<>>],
      [success |-> TRUE,
       messages |-> << Msg([type |-> JStr("assistant"),
                            message |-> Msg([content |->
                                JArr(<<JStr("hi"), JStr("")>>)])]) >>,
       stderr |-> "warn\n"] }

ArchiveRecords ==
    {SchemaData("Edit", "Add docstring to function", r) : r \in ArchiveResults}
    \cup {SchemaData("Write", "Create new JavaScript React component file", r) :
            r \in ArchiveResults}

\* What the directory may hold before the script starts: nothing, a schema
\* file of an earlier run, a file of another kind.
StaleFiles ==
    { NoFiles,
      SchemaFile("edit_tool") :>
          JsonDump(SchemaData("Edit", "Add docstring to function",
                              [success |-> TRUE, messages |-> <<JNum(7)>>,
                               stderr |-> ""])),
      "notes.txt" :> <<"x">> }

InitArchive ==
    /\ pc = "archive"
    /\ argv_help = FALSE
    /\ child = NoChild
    /\ live = {}
    /\ result = NoResult
    /\ cur = 0
    /\ began = <<>>
    /\ results = NoSaves
    /\ exit_code = -1
    /\ schemas_dir = TRUE
    /\ files \in StaleFiles
    /\ files0 = files
    /\ dir0 = schemas_dir
    /\ last_saved = NoSaves
    /\ loaded = NoResult
    /\ out = <<>>
    /\ todo = <<>>

ArchiveSave ==
    /\ pc = "archive"
    /\ cur < MaxSaves
    /\ \E tool_name \in ToolStems, schema_data \in ArchiveRecords :
        /\ files' = save_schema(files, tool_name, schema_data)
        /\ last_saved' = (tool_name :> schema_data) @@ last_saved
    /\ cur' = cur + 1
    /\ loaded' = NoResult
    /\ UNCHANGED << pc, argv_help, child, live, result, began, results,
                    exit_code, schemas_dir, files0, dir0, out, todo >>

ArchiveLoad ==
    /\ pc = "archive"
    /\ \E name \in DOMAIN files :
        loaded' = [kind |-> "load", name |-> name,
                   data |-> load_schema(files, name)]
    /\ UNCHANGED << pc, argv_help, child, live, result, cur, began, results,
                    exit_code, schemas_dir, files, files0, dir0, last_saved, out,
                    todo >>

NextArchive == ArchiveSave \/ ArchiveLoad

SpecArchive == InitArchive /\ [][NextArchive]_vars

----------------------------------------------------------------------------
(* SDKToolTester.run_all_tests, the four scenarios and main                *)

Scenarios == <<"edit", "write", "multiedit", "notebook_edit">>

ToolName ==
    [edit |-> "Edit", write |-> "Write", multiedit |-> "MultiEdit",
     notebook_edit |-> "NotebookEdit"]

TestScenario ==
    [edit |-> "Add docstring to function",
     write |-> "Create new JavaScript React component file",
     multiedit |-> "Add docstrings to multiple functions",
     notebook_edit |-> "Add markdown cell to notebook"]

\* The tool_name each scenario passes to save_schema.
Stem ==
    [edit |-> "edit_tool", write |-> "write_tool",
     multiedit |-> "multiedit_tool", notebook_edit |-> "notebook_edit_tool"]

\* The subprocess behaviours the runner specification draws from.
RunnerStdouts ==
    { <<>>,
      <<"{", StrTok("type"), ":", StrTok("result"), "}", "\n">>,
      <<"x", "\n", "1", "2", "\n", " ", "\n", "[", "]">>,
      <<"1", "\n", OverLong>> }

RunnerChildren ==
    [exc : {"none"}, stdout : RunnerStdouts, returncode : {0}, stderr : {""}]
    \cup [exc : {"none"}, stdout : RunnerStdouts, returncode : {1},
          stderr : {"warn\n"}]
    \cup [exc : {"FileNotFoundError", "UnicodeDecodeError"}, stdout : {<<>>},
          returncode : {0}, stderr : {""}]

\* run_all_tests calls the next scenario whatever the last one returned.
NextStepStopOnFailure(i, success) ==
    IF i < Len(Scenarios) /\ success THEN "begin" ELSE "summary"
NextStep(i, success) == IF i < Len(Scenarios) THEN "begin" ELSE "summary"

\* if not all(results.values()): sys.exit(1)
ExitStatusAny(res) == IF \E s \in DOMAIN res : res[s] THEN 0 ELSE 1
ExitStatus(res) == IF \A s \in DOMAIN res : res[s] THEN 0 ELSE 1

InitRunner ==
    /\ pc = "main"
    /\ argv_help \in BOOLEAN
    /\ child = NoChild
    /\ live = {}
    /\ result = NoResult
    /\ cur = 0
    /\ began = <<>>
    /\ results = NoSaves
    /\ exit_code = -1
    /\ schemas_dir \in BOOLEAN
    /\ files \in (IF schemas_dir THEN StaleFiles ELSE {NoFiles})
    /\ files0 = files
    /\ dir0 = schemas_dir
    /\ last_saved = NoSaves
    /\ loaded = NoResult
    /\ out = <<>>
    /\ todo = <<>>

\* main with --help: prints the docstring and returns.
MainHelp ==
    /\ pc = "main"
    /\ argv_help
    /\ pc' = "exited"
    /\ exit_code' = 0
    /\ UNCHANGED << argv_help, child, live, result, cur, began, results,
                    schemas_dir, files, files0, dir0, last_saved, loaded, out,
                    todo >>

\* main: SDKToolTester() makes the directories, run_all_tests starts.
MainStart ==
    /\ pc = "main"
    /\ ~argv_help
    /\ schemas_dir' = TRUE
    /\ cur' = 1
    /\ pc' = "begin"
    /\ UNCHANGED << argv_help, child, live, result, began, results,
                    exit_code, files, files0, dir0, last_saved, loaded, out, todo >>

\* A scenario, up to the start of its subprocess in subprocess.run.
ScenarioBegin ==
    /\ pc = "begin"
    /\ began' = Append(began, Scenarios[cur])
    /\ child' \in RunnerChildren
    /\ live' = IF child'.exc = "FileNotFoundError" THEN live
               ELSE live \cup {Scenarios[cur]}
    /\ result' = NoResult
    /\ pc' = "wait"
    /\ UNCHANGED << argv_help, cur, results, exit_code, schemas_dir, files,
                    files0, dir0, last_saved, loaded, out, todo >>

\* subprocess.run returns or raises, and run_claude_command with it; an
\* exception that leaves run_claude_command ends the script with a traceback.
SubprocessDone ==
    /\ pc = "wait"
    /\ live' = live \ {Scenarios[cur]}
    /\ result' = run_claude_command(child)
    /\ pc' = IF result'.kind = "raise" THEN "crashed" ELSE "save"
    /\ exit_code' = IF result'.kind = "raise" THEN 1 ELSE exit_code
    /\ UNCHANGED << argv_help, child, cur, began, results, schemas_dir,
                    files, files0, dir0, last_saved, loaded, out, todo >>

\* The rest of the scenario: schema_data, save_schema, return.
ScenarioSave ==
    /\ pc = "save"
    /\ LET s == Scenarios[cur]
           schema_data == SchemaData(ToolName[s], TestScenario[s], result.value)
       IN  /\ files' = save_schema(files, Stem[s], schema_data)
           /\ last_saved' = (Stem[s] :> schema_data) @@ last_saved
           /\ results' = (s :> result.value.success) @@ results
           /\ pc' = NextStep(cur, result.value.success)
    /\ cur' = cur + 1
    /\ UNCHANGED << argv_help, child, live, result, began, exit_code,
                    schemas_dir, files0, dir0, loaded, out, todo >>

\* The summary, and main's exit status.
Summary ==
    /\ pc = "summary"
    /\ exit_code' = ExitStatus(results)
    /\ pc' = "exited"
    /\ UNCHANGED << argv_help, child, live, result, cur, began, results,
                    schemas_dir, files, files0, dir0, last_saved, loaded, out,
                    todo >>

NextRunner ==
    \/ MainHelp
    \/ MainStart
    \/ ScenarioBegin
    \/ SubprocessDone
    \/ ScenarioSave
    \/ Summary

Spec == InitRunner /\ [][NextRunner]_vars

----------------------------------------------------------------------------
(* examine_schemas.py: examine_schema_file                                 *)

\* A printed line: its label, the file it is about, the number of the
\* message it is about (0: none) and the value shown (the previews are cut
\* to 200 characters; the strings of the model are shorter).
Line(label, name, i, val) == [line |-> label, file |-> name, msg |-> i, val |-> val]

Printed(lines) == [st |-> "ok", lines |-> lines]
Failed(exc, lines) == [st |-> exc, lines |-> lines]

\* bool(value) of a decoded JSON value
Truthy(o) ==
    CASE o.k = "null" -> FALSE
      [] o.k = "bool" -> o.v
      [] o.k = "num" -> o.v # 0
      [] o.k = "str" -> o.v # ""
      [] o.k = "arr" -> o.v # <<>>
      [] o.k = "obj" -> DOMAIN o.v # {}

\* The branch for type == 'system' and subtype == 'init'.
SystemInitLines(name, i, m) ==
    << Line("Tools", name, i, DictGet(m.v, "tools", JArr(<<>>))),
       Line("Model", name, i, DictGet(m.v, "model", JStr("unknown"))),
       Line("Permission Mode", name, i,
            DictGet(m.v, "permissionMode", JStr("unknown"))) >>

\* The branch for type == 'assistant': message['message'].get needs a dict.
AssistantLines(name, i, m) ==
    IF "message" \notin DOMAIN m.v THEN Printed(<<>>)
    ELSE IF m.v["message"].k # "obj" THEN Failed("AttributeError", <<>>)
    ELSE LET content == DictGet(m.v["message"].v, "content", JArr(<<>>))
         IN  IF Truthy(content)
             THEN Printed(<<Line("Content preview", name, i, content)>>)
             ELSE Printed(<<>>)

\* The branch for type == 'result': message['result'][:200] needs a value
\* that can be sliced, a string or a list.
ResultLines(name, i, m) ==
    LET head ==
            << Line("Is Error", name, i, DictGet(m.v, "is_error", JBool(TRUE))),
               Line("Num Turns", name, i, DictGet(m.v, "num_turns", JNum(0))),
               Line("Duration MS", name, i,
                    DictGet(m.v, "duration_ms", JNum(0))) >>
    IN  IF "result" \notin DOMAIN m.v THEN Printed(head)
        ELSE IF m.v["result"].k \in {"str", "arr"}
             THEN Printed(Append(head,
                    Line("Result preview", name, i, m.v["result"])))
        ELSE Failed("TypeError", head)

\* The body of the loop for message number i: message.get needs a dict.
MessageLines(name, i, m) ==
    LET first == <<Line("Message", name, i, JNum(i))>>
        type == DictGet(m.v, "type", JStr("unknown"))
        head == first \o <<Line("Type", name, i, type)>>
                \o (IF "subtype" \in DOMAIN m.v
                    THEN <<Line("Subtype", name, i, m.v["subtype"])>>
                    ELSE <<>>)
        \* message.get('type'), message.get('subtype'): None when absent
        t == DictGet(m.v, "type", JNull)
        st == DictGet(m.v, "subtype", JNull)
        rest == IF t = JStr("system") /\ st = JStr("init")
                THEN Printed(SystemInitLines(name, i, m))
                ELSE IF t = JStr("assistant") THEN AssistantLines(name, i, m)
                ELSE IF t = JStr("result") THEN ResultLines(name, i, m)
                ELSE Printed(<<>>)
    IN  IF m.k # "obj" THEN Failed("AttributeError", first)
        ELSE [st |-> rest.st, lines |-> head \o rest.lines]

\* for i, message in enumerate(...): from message number i on
RECURSIVE MessagesLines(_, _, _)
MessagesLines(name, msgs, i) ==
    IF i > Len(msgs) THEN Printed(<<>>)
    ELSE LET one == MessageLines(name, i, msgs[i])
             more == MessagesLines(name, msgs, i + 1)
         IN  IF one.st # "ok" THEN one
             ELSE [st |-> more.st, lines |-> one.lines \o more.lines]

\* The try block, after json.load returned data.  data.get needs a dict;
\* len() and the loop need a list under 'messages' (the files of the model
\* hold a list, a number or nothing there).
RecordLines(name, data) ==
    IF data.k # "obj" THEN Failed("AttributeError", <<>>)
    ELSE
    LET d == data.v
        head ==
            << Line("Tool Name", name, 0, DictGet(d, "tool_name", JStr("Unknown"))),
               Line("Test Scenario", name, 0,
                    DictGet(d, "test_scenario", JStr("Unknown"))),
               Line("Success", name, 0, DictGet(d, "success", JBool(FALSE))) >>
            \o (IF Truthy(DictGet(d, "stderr", JNull))
                THEN <<Line("Stderr", name, 0, d["stderr"])>>
                ELSE <<>>)
        msgs == DictGet(d, "messages", JArr(<<>>))
    IN  IF msgs.k # "arr" THEN Failed("TypeError", head)
        ELSE LET body == MessagesLines(name, msgs.v, 1)
             IN  [st |-> body.st,
                  lines |-> head
                            \o <<Line("Number of messages", name, 0,
                                      JNum(Len(msgs.v)))>>
                            \o body.lines]

\* except Exception as e: print(f"Error reading {filepath}: {e}")
ErrorLineDropped(name, exc) == <<>>
ErrorLine(name, exc) == <<Line("Error reading", name, 0, JStr(exc))>>

\* What examine_schema_file(filepath) prints.
examine_schema_file(fs, name) ==
    LET header == <<Line("Schema File", name, 0, JStr(name))>>
        data == load_schema(fs, name)
        body == IF data.st # "ok" THEN Failed(data.st, <<>>)
                ELSE RecordLines(name, data.val)
    IN  header \o body.lines
        \o (IF body.st # "ok" THEN ErrorLine(name, body.st) ELSE <<>>)

----------------------------------------------------------------------------
(* examine_schemas.py: main                                                *)

\* The file names of the model, in the order of sorted(): str order.
NameOrder ==
    << "_schema.json", SchemaFile("edit_tool"), SchemaFile("multiedit_tool"),
       SchemaFile("notebook_edit_tool"), "notes.txt", SchemaFile("write_tool") >>

PathLess(a, b) ==
    \E i, j \in 1..Len(NameOrder) :
        i < j /\ NameOrder[i] = a /\ NameOrder[j] = b

\* schemas_dir.glob("*_schema.json"): the names that match
GlobStems ==
    {"", "edit_tool", "multiedit_tool", "notebook_edit_tool", "write_tool"}
Glob(fs) == {n \in DOMAIN fs : \E t \in GlobStems : n = SchemaFile(t)}

\* sorted(schema_files)
RECURSIVE Unsorted(_)
Unsorted(S) ==
    IF S = {} THEN <<>>
    ELSE LET x == CHOOSE y \in S : \A z \in S \ {y} : PathLess(z, y)
         IN  <<x>> \o Unsorted(S \ {x})
RECURSIVE Sorted(_)
Sorted(S) ==
    IF S = {} THEN <<>>
    ELSE LET x == CHOOSE y \in S : \A z \in S \ {y} : PathLess(y, z)
         IN  <<x>> \o Sorted(S \ {x})

\* if not schemas_dir.exists()
DirCheckSkipped(exists) == FALSE
DirMissing(exists) == ~exists

\* The messages the reporter specification draws the schema files from.
ReportMessages ==
    { Msg([type |-> JStr("system"), subtype |-> JStr("init")]),
      Msg([type |-> JStr("assistant"),
           message |-> Msg([content |-> JArr(<<JStr("hi")>>)])]),
      Msg([type |-> JStr("assistant"), message |-> JStr("hi")]),
      Msg([type |-> JStr("result")]),
      Msg([type |-> JStr("result"), result |-> JStr("done")]),
      Msg([type |-> JStr("result"), result |-> JNum(5)]),
      Msg([type |-> JStr("user")]),
      Msg(EmptyDict),
      JNum(1) }

ReportRecords ==
    { SchemaData("Edit", "Add docstring to function",
                 [success |-> TRUE, messages |-> m, stderr |-> "warn\n"]) :
        m \in TokSeqs(ReportMessages, MaxMsgs) }

\* A file cut short by a crash in the middle of the write: its first half.
Truncated(text) == SubSeq(text, 1, Len(text) \div 2)

GoodRecord ==
    SchemaData("Write", "Create new JavaScript React component file",
               [success |-> FALSE,
                messages |-> <<Msg([type |-> JStr("result"),
                                    is_error |-> JBool(TRUE)])>>,
                stderr |-> ""])

\* Contents of a schema file: a record, a truncated record, an empty file,
\* JSON that is no object, a record whose messages are no list.
ReportContents ==
    {JsonDump(r) : r \in ReportRecords}
    \cup { Truncated(JsonDump(GoodRecord)), <<>>, <<"[", "1", "]">>,
           JsonDump(JObj([messages |-> JNum(3)])),
           <<"{", StrTok("messages"), ":", OverLong, "}">> }

\* Some of the names hold a file: f maps each name to its contents, or to
\* Absent.
Absent == <<"absent">>
FilesOf(f) == [n \in {m \in DOMAIN f : f[m] # Absent} |-> f[n]]

ReportDirectories ==
    { FilesOf((SchemaFile("multiedit_tool") :> a)
              @@ (SchemaFile("write_tool") :> b)
              @@ (SchemaFile("edit_tool") :> c)
              @@ ("notes.txt" :> d)) :
        a \in ReportContents \cup {Absent},
        b \in {Absent, JsonDump(GoodRecord), Truncated(JsonDump(GoodRecord))},
        c \in {Absent, JsonDump(GoodRecord)},
        d \in {Absent, <<"x">>} }

InitReport ==
    /\ pc = "report_main"
    /\ argv_help = FALSE
    /\ child = NoChild
    /\ live = {}
    /\ result = NoResult
    /\ cur = 0
    /\ began = <<>>
    /\ results = NoSaves
    /\ exit_code = -1
    /\ schemas_dir \in BOOLEAN
    /\ files \in (IF schemas_dir THEN ReportDirectories ELSE {NoFiles})
    /\ files0 = files
    /\ dir0 = schemas_dir
    /\ last_saved = NoSaves
    /\ loaded = NoResult
    /\ out = <<>>
    /\ todo = <<>>

\* main, up to the loop: the directory check, the glob, the sort.
ReportMain ==
    /\ pc = "report_main"
    /\ IF DirMissing(schemas_dir)
       THEN /\ out' = <<Line("Schemas directory not found!", "", 0, JNull)>>
            /\ todo' = <<>>
            /\ pc' = "report_exit"
       ELSE IF Glob(files) = {}
       THEN /\ out' = <<Line("No schema files found!", "", 0, JNull)>>
            /\ todo' = <<>>
            /\ pc' = "report_exit"
       ELSE /\ out' = <<Line("Found", "", 0, JNum(Cardinality(Glob(files))))>>
            /\ todo' = Sorted(Glob(files))
            /\ pc' = "report_loop"
    /\ UNCHANGED << argv_help, child, live, result, cur, began, results,
                    exit_code, schemas_dir, files, files0, dir0, last_saved, loaded >>

\* One turn of the loop: examine_schema_file on the next file.
ReportExamine ==
    /\ pc = "report_loop"
    /\ todo # <<>>
    /\ out' = out \o examine_schema_file(files, Head(todo))
    /\ todo' = Tail(todo)
    /\ UNCHANGED << pc, argv_help, child, live, result, cur, began, results,
                    exit_code, schemas_dir, files, files0, dir0, last_saved, loaded >>

\* main returns: the script ends with status 0.
ReportExit ==
    /\ \/ pc = "report_exit"
       \/ pc = "report_loop" /\ todo = <<>>
    /\ pc' = "report_done"
    /\ exit_code' = 0
    /\ UNCHANGED << argv_help, child, live, result, cur, began, results,
                    schemas_dir, files, files0, dir0, last_saved, loaded, out, todo >>

NextReport == ReportMain \/ ReportExamine \/ ReportExit

SpecReport == InitReport /\ [][NextReport]_vars

----------------------------------------------------------------------------
(* Properties of the capture (SpecCapture)                                 *)

\* A line is valid JSON when it is a JSON document by its syntax: what the
\* decoder accepts once every over-long digit run is read as a digit run.
AsDigits(line) ==
    [i \in 1..Len(line) |-> IF line[i] = OverLong THEN "1" ELSE line[i]]
IsValidJson(line) == JsonLoads(AsDigits(line)).st = "ok"
ValidLines(stdout) == SelectSeq(Split(stdout), IsValidJson)

\* The lines json.loads decodes, joined again with newlines.
Decodes(line) == JsonLoads(line).st = "ok"
RECURSIVE Join(_)
Join(lines) ==
    IF lines = <<>> THEN <<>>
    ELSE IF Len(lines) = 1 THEN lines[1]
    ELSE lines[1] \o <<"\n">> \o Join(Tail(lines))

Completed == pc = "capture_returned" /\ child.exc = "none"

\* C1: for every standard output, messages is the sequence of the decoded
\* values of the lines that are valid JSON, in line order: as many
\* messages as valid lines, the i-th message the value of the i-th valid
\* line.
C1_MessagesAreTheValidLines ==
    Completed =>
        /\ result.kind = "return"
        /\ Len(result.value.messages) = Len(ValidLines(child.stdout))
        /\ \A i \in 1..Len(result.value.messages) :
              Decodes(ValidLines(child.stdout)[i]) =>
                  result.value.messages[i]
                      = JsonLoads(ValidLines(child.stdout)[i]).val

\* C2: when the subprocess ran to completion, success is true exactly when
\* the exit status is zero, whatever lines fail to decode, and the messages
\* are those of the output without the lines that fail to decode.
C2_SuccessIsExitStatusZero ==
    Completed =>
        /\ result.kind = "return"
        /\ result.value.success = (child.returncode = 0)
        /\ result.value.messages
              = run_claude_command(
                    [child EXCEPT !.stdout =
                        Join(SelectSeq(Split(child.stdout), Decodes))]
                ).value.messages

----------------------------------------------------------------------------
(* Properties of the runner (Spec)                                         *)

\* The scenario that returned last, when one has.
LastDone == Scenarios[cur - 1]
AfterScenario == pc \in {"begin", "summary", "exited"} /\ cur > 1

FailureRecord(s) ==
    SchemaData(ToolName[s], TestScenario[s],
               [success |-> FALSE, messages |-> <<>>, stderr |-> ""])

\* C3: no exception leaves run_claude_command; when subprocess.run raises,
\* it returns success = false, no messages and the error text, and the
\* scenario archives a record with empty stderr and returns false.
C3_ExceptionsBecomeFailureResults ==
    /\ pc # "crashed"
    /\ result.kind # "raise"
    /\ (result.kind = "return" /\ child.exc # "none") =>
          /\ "error" \in DOMAIN result.value
          /\ result.value.error = child.exc
    /\ (result.kind = "return" /\ "error" \in DOMAIN result.value) =>
          /\ result.value.success = FALSE
          /\ result.value.messages = <<>>
          /\ "stderr" \notin DOMAIN result.value
    /\ (AfterScenario /\ "error" \in DOMAIN result.value) =>
          /\ SchemaFile(Stem[LastDone]) \in DOMAIN files
          /\ files[SchemaFile(Stem[LastDone])] = JsonDump(FailureRecord(LastDone))
          /\ results[LastDone] = FALSE

C3_Witness ==
    /\ pc = "summary"
    /\ child.exc = "FileNotFoundError"
    /\ results["notebook_edit"] = FALSE
    /\ results["edit"] = TRUE
    /\ SchemaFile("notebook_edit_tool") \in DOMAIN files

\* The success flag of the record in tool_name's file.
ArchivedSuccess(tool_name) ==
    JsonLoads(files[tool_name \o "_schema.json"]).val.v["success"].v

\* C6: the exit status is non-zero exactly when a scenario returned false,
\* zero when all four returned true, and each returned flag is the success
\* flag of the record the scenario archived.
C6_ExitStatusAggregatesFlags ==
    /\ pc = "exited" =>
          (exit_code # 0 <=> \E s \in DOMAIN results : results[s] = FALSE)
    /\ (pc = "exited" /\ ~argv_help) =>
          /\ DOMAIN results = {"edit", "write", "multiedit", "notebook_edit"}
          /\ exit_code \in {0, 1}
          /\ exit_code = 0 <=> \A s \in DOMAIN results : results[s] = TRUE
    /\ \A s \in DOMAIN results : results[s] = ArchivedSuccess(Stem[s])

C6_Witness ==
    /\ pc = "exited"
    /\ exit_code = 1
    /\ results["edit"] = TRUE
    /\ results["write"] = FALSE
    /\ results["multiedit"] = TRUE
    /\ results["notebook_edit"] = TRUE

\* C7: the four scenarios run in the fixed order whatever the earlier ones
\* returned; a scenario begins only when the one before it has no running
\* subprocess and has saved its record; no two subprocesses overlap.
C7_AllScenariosInOrderOneAtATime ==
    /\ Cardinality(live) <= 1
    /\ Len(began) <= Len(Scenarios)
    /\ began = SubSeq(Scenarios, 1, Len(began))
    /\ \A i \in 1..(Len(began) - 1) :
          /\ began[i] \notin live
          /\ Stem[began[i]] \in DOMAIN last_saved
          /\ began[i] \in DOMAIN results
    /\ (pc \in {"summary", "exited"} /\ ~argv_help) => began = Scenarios

C7_Witness ==
    /\ pc = "summary"
    /\ began = Scenarios
    /\ results["edit"] = FALSE
    /\ results["write"] = FALSE
    /\ results["notebook_edit"] = TRUE

----------------------------------------------------------------------------
(* Properties of the archive (SpecArchive)                                 *)

\* C4: a record saved under a tool_name and loaded from that tool_name's
\* file comes back equal in every field, the messages in the same order.
C4_SaveThenLoadRoundTrip ==
    \A tool_name \in DOMAIN last_saved :
        (loaded.kind = "load" /\ loaded.name = tool_name \o "_schema.json") =>
            /\ loaded.data.st = "ok"
            /\ loaded.data.val = last_saved[tool_name]

C4_Witness ==
    /\ loaded.kind = "load"
    /\ "write_tool" \in DOMAIN last_saved
    /\ loaded.name = "write_tool_schema.json"
    /\ loaded.data.st = "ok"
    /\ Len(loaded.data.val.v["messages"].v) >= 2
    /\ loaded.data.val.v["stderr"] = JStr("")

\* C5: after any saves the directory holds, for each tool_name saved, one
\* file, with the contents of the last save for it; every other file is as
\* it was when the script started, and there is no other file.
C5_OneFilePerToolLastSaveWins ==
    /\ \A tool_name \in DOMAIN last_saved :
          /\ (tool_name \o "_schema.json") \in DOMAIN files
          /\ files[tool_name \o "_schema.json"] = JsonDump(last_saved[tool_name])
    /\ \A n \in DOMAIN files :
          (\A tool_name \in DOMAIN last_saved : n # tool_name \o "_schema.json")
              => (n \in DOMAIN files0 /\ files[n] = files0[n])
    /\ DOMAIN files0 \subseteq DOMAIN files
    /\ Cardinality(DOMAIN files)
          <= Cardinality(DOMAIN files0) + Cardinality(DOMAIN last_saved)

C5_Witness ==
    /\ cur = 2
    /\ DOMAIN last_saved = {"edit_tool"}
    /\ SchemaFile("edit_tool") \in DOMAIN files0
    /\ files[SchemaFile("edit_tool")] # files0[SchemaFile("edit_tool")]

----------------------------------------------------------------------------
(* Properties of the reporter (SpecReport)                                 *)

\* The files whose names match the naming convention *_schema.json.
SchemaFiles == {n \in DOMAIN files : n # "notes.txt"}

\* The files of the "Schema File" lines printed, in order.
RECURSIVE Visited(_)
Visited(lines) ==
    IF lines = <<>> THEN <<>>
    ELSE (IF Head(lines).line = "Schema File" THEN <<Head(lines).file>>
          ELSE <<>>) \o Visited(Tail(lines))

\* The message numbers of the "Type" lines printed for file n, in order.
RECURSIVE TypeEntries(_, _)
TypeEntries(lines, n) ==
    IF lines = <<>> THEN <<>>
    ELSE (IF Head(lines).line = "Type" /\ Head(lines).file = n
          THEN <<Head(lines).msg>>
          ELSE <<>>) \o TypeEntries(Tail(lines), n)

HasLine(label, n) == \E i \in 1..Len(out) : out[i].line = label /\ out[i].file = n

Unreadable(n) == JsonLoads(files[n]).st # "ok"

\* C8: the reporter visits every file that matches the naming convention
\* once, in sorted name order; a file that cannot be decoded is reported for
\* that file with the cause, and the files after it are summarized.
C8_EveryFileVisitedInOrderErrorsReported ==
    pc = "report_done" =>
        LET v == Visited(out)
        IN  /\ {v[i] : i \in 1..Len(v)} = SchemaFiles
            /\ Len(v) = Cardinality(SchemaFiles)
            /\ \A i, j \in 1..Len(v) : i < j => PathLess(v[i], v[j])
            /\ \A n \in SchemaFiles :
                  /\ Unreadable(n) =>
                        \E i \in 1..Len(out) :
                            /\ out[i].line = "Error reading"
                            /\ out[i].file = n
                            /\ out[i].val = JStr(JsonLoads(files[n]).st)
                  /\ (~Unreadable(n) /\ JsonLoads(files[n]).val.k = "obj")
                        => HasLine("Tool Name", n)

C8_Witness ==
    /\ pc = "report_done"
    /\ SchemaFiles = {SchemaFile("edit_tool"), SchemaFile("multiedit_tool"),
                      SchemaFile("write_tool")}
    /\ Unreadable(SchemaFile("multiedit_tool"))
    /\ ~Unreadable(SchemaFile("write_tool"))
    /\ HasLine("Error reading", SchemaFile("multiedit_tool"))
    /\ HasLine("Is Error", SchemaFile("write_tool"))

\* C9: for every archived record the reporter prints a type entry for
\* every message of the record, in order, whatever the messages are.
C9_TypeEntryForEveryMessage ==
    pc = "report_done" =>
        \A n \in SchemaFiles :
            LET data == JsonLoads(files[n])
            IN  (/\ data.st = "ok"
                 /\ data.val.k = "obj"
                 /\ "messages" \in DOMAIN data.val.v
                 /\ data.val.v["messages"].k = "arr")
                => TypeEntries(out, n)
                      = [i \in 1..Len(data.val.v["messages"].v) |-> i]

\* C10: when the directory does not exist the reporter prints the message,
\* scans and summarizes nothing, changes nothing and exits with status 0.
C10_MissingDirectoryIsReportedOnly ==
    (pc # "report_main" /\ ~dir0) =>
        /\ out = <<Line("Schemas directory not found!", "", 0, JNull)>>
        /\ todo = <<>>
        /\ Visited(out) = <<>>
        /\ ~schemas_dir
        /\ files = files0
        /\ pc \in {"report_exit", "report_done"}
        /\ pc = "report_done" => exit_code = 0

C10_Witness == pc = "report_done" /\ ~dir0 /\ exit_code = 0 /\ Len(out) = 1

============================================================================
